---- MODULE Spec2Model ----
(***************************************************************************)
(* The Casino F&B pricing script (src/dynamic_pricing.py) as a state        *)
(* machine.  One run of the script is the sequence of its statements        *)
(* inside the try block (lines 69-227); the except handler (229-231) ends a *)
(* run early.  Streamlit reruns the script on every interaction; each run   *)
(* reads the widgets' current values (brand, item, edited prices, button).  *)
(*                                                                         *)
(* Tables are sets of rows (records).  Money is in whole dollars, demand in *)
(* whole units, a lift is kept in tenths of a percent (67 is 6.7%).         *)
(***************************************************************************)
EXTENDS Integers, Sequences, FiniteSets, TLC

\* Days of week present for the main (brand, item) scope.
MaxDays == 2
\* How many times the operator clicks "Update Prices".
MaxCommits == 1

Days == 1..MaxDays

VARIABLES
    db,           \* the warehouse: pricing, pricing_detail, pricing_final
    now,          \* the warehouse clock (CURRENT_TIMESTAMP)
    commits,      \* "Update Prices" clicks so far
    pc,           \* the statement the run is at
    ran,          \* the statements this run has completed
    brand,        \* st.selectbox "Select Brand:"
    item,         \* st.selectbox "Select Item:"
    set_prices,   \* the data editor's rows (the candidate set)
    df_demand,    \* the joined and scored rows
    udf_calls,    \* the positional argument lists handed to udf_demand_price
    demand_lift,  \* <<>> is None (SQL NULL), <<v>> a value in tenths
    profit_lift,
    staged,       \* rows the running INSERT has written, not yet committed
    rows_written, \* how many rows the last INSERT had written when it ended
    exc,          \* <<>> or <<statement, str(e)>>: the exception raised
    st_metrics,   \* <<>> or <<demand_lift, profit_lift>> shown by st.metric
    st_error,     \* "" or the text shown by st.error
    st_success,   \* st.success("Prices updated successfully!")
    history_df    \* the rows shown in "View Price History", in order

vars == <<db, now, commits, pc, ran, brand, item, set_prices,
          df_demand, udf_calls, demand_lift, profit_lift, staged, rows_written,
          exc, st_metrics, st_error, st_success, history_df>>

----------------------------------------------------------------------------
(* The model input features, in call order (lines 10-25).                  *)

feature_cols_drift ==
    <<"base_price", "new_price",
      "price_hist_dow", "price_year_dow", "price_month_dow",
      "price_change_hist_dow", "price_change_year_dow", "price_change_month_dow",
      "price_hist_roll", "price_year_roll", "price_month_roll",
      "price_change_hist_roll", "price_change_year_roll", "price_change_month_roll">>

feature_cols ==
    <<"new_price", "base_price",
      "price_hist_dow", "price_year_dow", "price_month_dow",
      "price_change_hist_dow", "price_change_year_dow", "price_change_month_dow",
      "price_hist_roll", "price_year_roll", "price_month_roll",
      "price_change_hist_roll", "price_change_year_roll", "price_change_month_roll">>

----------------------------------------------------------------------------
(* The warehouse's contents.  pricing holds one row per (brand, item,      *)
(* day_of_week) with the prices and the historical features;               *)
(* pricing_detail holds the baseline of a key.                             *)

Key(b, i, d) == [brand |-> b, item |-> i, day_of_week |-> d]

KeyOf(r) == Key(r.brand, r.item, r.day_of_week)

PricingKeys ==
    {Key("b1", "i1", d) : d \in Days} \cup {Key("b1", "i2", 1), Key("b2", "i1", 1)}

BasePrice(k) == IF k.item = "i1" THEN 6 ELSE 5

\* The price the table proposes before any edit.
ListedNewPrice(k) ==
    IF k.item = "i2" THEN 5
    ELSE IF k.brand = "b2" THEN 6
    ELSE IF k.day_of_week = 1 THEN 4 ELSE 7

PriceHist(k) ==
    IF k.item = "i2" THEN 3
    ELSE IF k.brand = "b2" THEN 8
    ELSE IF k.day_of_week = 1 THEN 10 ELSE 5

PricingRow(k) ==
    [brand |-> k.brand, item |-> k.item, day_of_week |-> k.day_of_week,
     new_price |-> ListedNewPrice(k), base_price |-> BasePrice(k),
     price_hist_dow |-> PriceHist(k),
     price_year_dow |-> PriceHist(k) + 20,
     price_month_dow |-> PriceHist(k) + 40,
     price_change_hist_dow |-> PriceHist(k) + 60,
     price_change_year_dow |-> PriceHist(k) + 80,
     price_change_month_dow |-> PriceHist(k) + 100,
     price_hist_roll |-> PriceHist(k) + 120,
     price_year_roll |-> PriceHist(k) + 140,
     price_month_roll |-> PriceHist(k) + 160,
     price_change_hist_roll |-> PriceHist(k) + 180,
     price_change_year_roll |-> PriceHist(k) + 200,
     price_change_month_roll |-> PriceHist(k) + 220]

PricingTable == {PricingRow(k) : k \in PricingKeys}

\* The baseline demand of a key at its current price.
ListedDemand(k) == PriceHist(k) * 10

\* A pricing_detail row; zd: the key's baseline demand is 0, zp: its
\* baseline profit is 0.
DetailRow(k, zd, zp) ==
    [brand |-> k.brand, item |-> k.item, day_of_week |-> k.day_of_week,
     item_cost |-> 2, average_basket_profit |-> 1,
     current_price_demand |-> IF zd THEN 0 ELSE ListedDemand(k),
     current_price_profit |->
         IF zp THEN 0 ELSE ListedDemand(k) * (BasePrice(k) - 2 + 1)]

\* The pricing_detail tables a run may find: complete and nonzero; one key
\* without a row; one key or every key with a zero baseline demand; a zero
\* baseline profit everywhere.
DetailTables ==
    {{DetailRow(k, FALSE, FALSE) : k \in PricingKeys \ missing} :
        missing \in {{}} \cup {{k} : k \in PricingKeys}}
    \cup {{DetailRow(k, k \in zd, FALSE) : k \in PricingKeys} :
        zd \in {{Key("b1", "i1", 1)}, PricingKeys}}
    \cup {{DetailRow(k, FALSE, TRUE) : k \in PricingKeys}}

\* A transaction committed by an earlier session.
OldTransaction ==
    [f \in DOMAIN PricingRow(Key("b2", "i1", 1)) \cup {"comment", "timestamp"} |->
        IF f = "comment" THEN ""
        ELSE IF f = "timestamp" THEN 0
        ELSE PricingRow(Key("b2", "i1", 1))[f]]

\* The prices the operator may type into the editor.
EditPrices == {6}

----------------------------------------------------------------------------
(* Dataframe operations.                                                   *)

Max(a, b) == IF a >= b THEN a ELSE b

Abs(a) == IF a < 0 THEN 0 - a ELSE a

RECURSIVE SumCol(_, _)
\* F.sum(c) over the rows S; callers handle the empty set (SQL NULL).
SumCol(S, c) ==
    IF S = {} THEN 0
    ELSE LET r == CHOOSE x \in S : TRUE
         IN  r[c] + SumCol(S \ {r}, c)

\* df.select("brand").distinct() (line 82).
BrandOptions(pricing) == {r.brand : r \in pricing}

\* df.filter(F.col("brand") == brand).select("item").distinct() (line 89).
ItemOptions(pricing, b) == {r.item : r \in {x \in pricing : x.brand = b}}

\* df.filter((F.col("brand") == brand) & (F.col("item") == item)) (line 97),
\* df being pricing with the added column comment = "" (line 71).
WithComment(r) ==
    [f \in DOMAIN r \cup {"comment"} |-> IF f = "comment" THEN "" ELSE r[f]]

ScopeRows(pricing, b, i) ==
    {WithComment(r) : r \in {x \in pricing : x.brand = b /\ x.item = i}}

\* What the data editor can return for the rows R: each row's new_price as
\* listed or replaced by a typed price.
EditedSets(R) ==
    {{[r EXCEPT !.new_price = e[r]] : r \in R} :
        e \in {f \in [R -> EditPrices \cup {x.new_price : x \in R}] :
                  \A r \in R : f[r] \in EditPrices \cup {r.new_price}}}

\* [F.col(c) for c in feature_cols] evaluated on a row (line 127).
UdfArgs(r) == [n \in 1..Len(feature_cols) |-> r[feature_cols[n]]]

\* udf_demand_price: the deployed demand function, a black box to the script
\* and deterministic in its positional arguments.  Here demand falls by 10
\* units per dollar of new_price above base_price.
udf_demand_price(args) == Max(0, args[3] * 10 + (args[2] - args[1]) * 10)

\* The join type of DataFrame.join(right, using_columns) (line 118): inner.
JoinMatches(r, detail) == {d \in detail : KeyOf(d) = KeyOf(r)}

\* set_prices.join(pricing_detail, [brand, item, day_of_week]).select(...)
\* with the scored column new_price_demand (lines 118-130).
JoinAndScore(sp, detail) ==
    UNION {{[day_of_week |-> r.day_of_week,
      current_price_demand |-> d.current_price_demand,
      new_price |-> r.new_price,
      item_cost |-> d.item_cost,
      average_basket_profit |-> d.average_basket_profit,
      current_price_profit |-> d.current_price_profit,
      new_price_demand |-> udf_demand_price(UdfArgs(r))] :
        d \in JoinMatches(r, detail)} : r \in sp}

\* The argument list of every call the scoring makes: one per joined row.
ScoredCalls(sp, detail) ==
    {[key |-> KeyOf(r), args |-> UdfArgs(r)] :
        r \in {x \in sp : JoinMatches(x, detail) # {}}}

----------------------------------------------------------------------------
(* The lift arithmetic (lines 132-162).                                    *)

\* ROUND(n / d) to an integer, toward zero: TRUNC.
RoundTowardZero(n, d) ==
    LET q == Abs(n) \div Abs(d)
    IN  IF (n < 0) = (d < 0) THEN q ELSE 0 - q

\* ROUND(n / d) to an integer, half away from zero: the warehouse's ROUND.
RoundHalfAway(n, d) ==
    LET q == (2 * Abs(n) + Abs(d)) \div (2 * Abs(d))
    IN  IF (n < 0) = (d < 0) THEN q ELSE 0 - q

\* F.round(((new - cur) / cur) * 100, 1), in tenths of a percent.
LiftPct(new, cur) == RoundHalfAway(1000 * (new - cur), cur)

\* The profit column without the basket profit.
NewPriceProfitNoBasket(r) == r.new_price_demand * (r.new_price - r.item_cost)

\* new_price_demand * (new_price - item_cost + average_basket_profit).
NewPriceProfit(r) ==
    r.new_price_demand * (r.new_price - r.item_cost + r.average_basket_profit)

\* df_demand.with_column("new_price_profit", ...) (lines 146-150).
WithProfit(df) ==
    {[f \in DOMAIN r \cup {"new_price_profit"} |->
        IF f = "new_price_profit" THEN NewPriceProfit(r) ELSE r[f]] : r \in df}

DemandLiftOf(df) ==
    LiftPct(SumCol(df, "new_price_demand"), SumCol(df, "current_price_demand"))

ProfitLiftOf(df) ==
    LiftPct(SumCol(WithProfit(df), "new_price_profit"),
            SumCol(df, "current_price_profit"))

----------------------------------------------------------------------------
(* The write and the history read (lines 207-227).                         *)

\* The table named in save_as_table, were it the catalog's.
SaveTargetPricing == "pricing"

\* save_as_table("pricing_final").
SaveTarget == "pricing_final"

\* with_column("timestamp", F.current_timestamp()): one value per statement.
Stamp(r, ts) ==
    [f \in DOMAIN r \cup {"timestamp"} |-> IF f = "timestamp" THEN ts ELSE r[f]]

\* A row written by an INSERT that commits row by row.
InsertRowAutocommit(d, stg, r) ==
    [db |-> [d EXCEPT ![SaveTarget] = @ \cup {r}], staged |-> stg \cup {r}]

\* A row written by the single INSERT statement of save_as_table: it stays
\* in the statement's uncommitted work until the statement ends.
InsertRow(d, stg, r) == [db |-> d, staged |-> stg \cup {r}]

\* write.mode("overwrite").
SaveOverwrite(tbl, rows) == rows

\* write.mode("append").
SaveAppend(tbl, rows) == tbl \cup rows

RowsAt(S, ts) == {r \in S : r.timestamp = ts}

Newest(S) == {r \in S : \A x \in S : x.timestamp <= r.timestamp}

RECURSIVE OrderByTimestampDesc(_)
\* order_by(F.col("timestamp").desc()): every order of the rows with
\* timestamps descending; rows of one timestamp come in any order.
OrderByTimestampDesc(S) ==
    IF S = {} THEN {<<>>}
    ELSE UNION {{<<r>> \o t : t \in OrderByTimestampDesc(S \ {r})} : r \in Newest(S)}

----------------------------------------------------------------------------
(* The statements of the try block, in program order.                      *)

\* The button block placed before the evaluation.
ProgramOrderButtonFirst ==
    <<"session", "brand", "item", "editor", "button", "join", "demand_lift",
      "profit_lift", "metrics", "chart", "history">>

ProgramOrder ==
    <<"session", "brand", "item", "editor", "join", "demand_lift",
      "profit_lift", "metrics", "chart", "button", "history">>

Succ(l) ==
    LET n == CHOOSE x \in 1..Len(ProgramOrder) : ProgramOrder[x] = l
    IN  IF n = Len(ProgramOrder) THEN "footer" ELSE ProgramOrder[n + 1]

Advance(l) == pc' = Succ(l) /\ ran' = ran \cup {l}

\* An exception leaves the try block for the handler, which shows it:
\* except Exception as e: st.error(f"An error occurred: {str(e)}") (229-231).
\* The footer follows.
Raise(l, msg) ==
    /\ exc' = <<l, msg>>
    /\ st_error' = msg
    /\ pc' = "footer"
    /\ UNCHANGED ran

\* What is on the page besides the error text.
page == <<st_metrics, st_success, history_df>>

store == <<db, now, commits>>
widgets == <<brand, item, set_prices>>
evaluation == <<df_demand, udf_calls, demand_lift, profit_lift>>
writing == <<staged, rows_written>>
shown == <<st_metrics, st_error, st_success, history_df>>

Init ==
    /\ db \in {[pricing |-> PricingTable, pricing_detail |-> dt,
                 pricing_final |-> {OldTransaction}] : dt \in DetailTables}
    /\ now = 1
    /\ commits = 0
    /\ pc = ProgramOrder[1]
    /\ ran = {}
    /\ brand = ""
    /\ item = ""
    /\ set_prices = {}
    /\ df_demand = {}
    /\ udf_calls = {}
    /\ demand_lift = <<>>
    /\ profit_lift = <<>>
    /\ staged = {}
    /\ rows_written = 0
    /\ exc = <<>>
    /\ st_metrics = <<>>
    /\ st_error = ""
    /\ st_success = FALSE
    /\ history_df = <<>>

\* session = get_active_session(); df = session.table("pricing")... (70-71)
GetSession ==
    /\ pc = "session"
    /\ Advance("session")
    /\ UNCHANGED <<store, widgets, evaluation, writing, shown, exc>>

\* get_active_session() raises when there is no session.
SessionFails ==
    /\ pc = "session"
    /\ Raise("session", "No default Session is found")
    /\ UNCHANGED <<store, widgets, evaluation, writing, page>>

\* brand = st.selectbox("Select Brand:", ...) (lines 80-84)
SelectBrand ==
    /\ pc = "brand"
    /\ brand' \in BrandOptions(db.pricing)
    /\ Advance("brand")
    /\ UNCHANGED <<store, item, set_prices, evaluation, writing, shown, exc>>

\* item = st.selectbox("Select Item:", ...) (lines 87-91)
SelectItem ==
    /\ pc = "item"
    /\ item' \in ItemOptions(db.pricing, brand)
    /\ Advance("item")
    /\ UNCHANGED <<store, brand, set_prices, evaluation, writing, shown, exc>>

\* set_prices = session.create_dataframe(st.data_editor(...)) (lines 95-112)
DataEditor ==
    /\ pc = "editor"
    /\ set_prices' \in EditedSets(ScopeRows(db.pricing, brand, item))
    /\ Advance("editor")
    /\ UNCHANGED <<store, brand, item, evaluation, writing, shown, exc>>

\* df_demand = set_prices.join(...).select(...) (lines 118-130)
JoinDetail ==
    /\ pc = "join"
    /\ df_demand' = JoinAndScore(set_prices, db.pricing_detail)
    /\ udf_calls' = ScoredCalls(set_prices, db.pricing_detail)
    /\ Advance("join")
    /\ UNCHANGED <<store, widgets, demand_lift, profit_lift, writing, shown, exc>>

\* demand_lift = df_demand.select(F.round(...)).collect()[0][0] (133-142).
\* The sums of no rows are NULL and so is the lift; a zero divisor makes
\* the warehouse fail the query.
DemandLift ==
    /\ pc = "demand_lift"
    /\ IF df_demand = {}
       THEN demand_lift' = <<>> /\ Advance("demand_lift") /\ UNCHANGED <<exc, st_error>>
       ELSE IF SumCol(df_demand, "current_price_demand") = 0
       THEN Raise("demand_lift", "Division by zero") /\ UNCHANGED demand_lift
       ELSE /\ demand_lift' = <<DemandLiftOf(df_demand)>>
            /\ Advance("demand_lift")
            /\ UNCHANGED <<exc, st_error>>
    /\ UNCHANGED <<store, widgets, df_demand, udf_calls, profit_lift, writing, page>>

\* profit_lift = df_demand.with_column(...).select(...).collect()[0][0]
\* (lines 145-162)
ProfitLift ==
    /\ pc = "profit_lift"
    /\ IF df_demand = {}
       THEN profit_lift' = <<>> /\ Advance("profit_lift") /\ UNCHANGED <<exc, st_error>>
       ELSE IF SumCol(df_demand, "current_price_profit") = 0
       THEN Raise("profit_lift", "Division by zero") /\ UNCHANGED profit_lift
       ELSE /\ profit_lift' = <<ProfitLiftOf(df_demand)>>
            /\ Advance("profit_lift")
            /\ UNCHANGED <<exc, st_error>>
    /\ UNCHANGED <<store, widgets, df_demand, udf_calls, demand_lift, writing, page>>

\* A query that calls udf_demand_price fails: the two collect() calls and
\* to_pandas() (lines 142, 161, 180) each run the scoring.
ScoringFails ==
    /\ pc \in {"demand_lift", "profit_lift", "chart"}
    /\ Raise(pc, "udf_demand_price failed")
    /\ UNCHANGED <<store, widgets, evaluation, writing, page>>

\* st.metric("Demand Lift", ...), st.metric("Profit Lift", ...) (165-177)
ShowMetrics ==
    /\ pc = "metrics"
    /\ st_metrics' = <<demand_lift, profit_lift>>
    /\ Advance("metrics")
    /\ UNCHANGED <<store, widgets, evaluation, writing, st_error, st_success,
                   history_df, exc>>

\* df_demand.to_pandas() and the chart (lines 180-204)
ShowChart ==
    /\ pc = "chart"
    /\ Advance("chart")
    /\ UNCHANGED <<store, widgets, evaluation, writing, shown, exc>>

\* if st.button("Update Prices"): not clicked in this run (line 207)
ButtonIdle ==
    /\ pc = "button"
    /\ Advance("button")
    /\ UNCHANGED <<store, widgets, evaluation, writing, shown, exc>>

\* if st.button("Update Prices"): clicked; the INSERT starts (208-211)
ButtonClicked ==
    /\ pc = "button"
    /\ commits < MaxCommits
    /\ commits' = commits + 1
    /\ pc' = "write"
    /\ staged' = {}
    /\ rows_written' = 0
    /\ UNCHANGED <<db, now, ran, widgets, evaluation, shown, exc>>

\* The INSERT writes one more row of set_prices, stamped.
WriteRow ==
    /\ pc = "write"
    /\ \E r \in set_prices :
         /\ Stamp(r, now) \notin staged
         /\ LET res == InsertRow(db, staged, Stamp(r, now))
            IN  db' = res.db /\ staged' = res.staged
    /\ UNCHANGED <<now, commits, pc, ran, widgets, evaluation,
                   rows_written, shown, exc>>

\* The INSERT ends: its rows are committed together, save_as_table returns
\* and st.success follows (line 212).
WriteCommit ==
    /\ pc = "write"
    /\ \A r \in set_prices : Stamp(r, now) \in staged
    /\ db' = [db EXCEPT ![SaveTarget] = SaveAppend(@, staged)]
    /\ now' = now + 1
    /\ rows_written' = Cardinality(staged)
    /\ staged' = {}
    /\ st_success' = TRUE
    /\ Advance("button")
    /\ UNCHANGED <<commits, widgets, evaluation, st_metrics, st_error,
                   history_df, exc>>

\* The INSERT fails part way: the warehouse rolls the statement back and
\* save_as_table raises.
WriteFails ==
    /\ pc = "write"
    /\ rows_written' = Cardinality(staged)
    /\ staged' = {}
    /\ Raise("button", "write failed")
    /\ UNCHANGED <<store, widgets, evaluation, page>>

\* history_df = session.table("pricing_final").order_by(timestamp desc);
\* st.dataframe(history_df) (lines 215-227)
ViewHistory ==
    /\ pc = "history"
    /\ history_df' \in OrderByTimestampDesc(db.pricing_final)
    /\ Advance("history")
    /\ UNCHANGED <<store, widgets, evaluation, writing, st_metrics, st_error,
                   st_success, exc>>

\* The footer ends the run (234-235); the next interaction reruns the script.
Rerun ==
    /\ pc = "footer"
    /\ pc' = ProgramOrder[1]
    /\ ran' = {}
    /\ brand' = ""
    /\ item' = ""
    /\ set_prices' = {}
    /\ df_demand' = {}
    /\ udf_calls' = {}
    /\ demand_lift' = <<>>
    /\ profit_lift' = <<>>
    /\ rows_written' = 0
    /\ exc' = <<>>
    /\ st_metrics' = <<>>
    /\ st_error' = ""
    /\ st_success' = FALSE
    /\ history_df' = <<>>
    /\ UNCHANGED <<store, staged>>

Next ==
    \/ GetSession
    \/ SessionFails
    \/ SelectBrand
    \/ SelectItem
    \/ DataEditor
    \/ JoinDetail
    \/ DemandLift
    \/ ProfitLift
    \/ ScoringFails
    \/ ShowMetrics
    \/ ShowChart
    \/ ButtonIdle
    \/ ButtonClicked
    \/ WriteRow
    \/ WriteCommit
    \/ WriteFails
    \/ ViewHistory
    \/ Rerun

Spec == Init /\ [][Next]_vars

----------------------------------------------------------------------------
(* Vocabulary of the properties.                                           *)

Range(q) == {q[n] : n \in 1..Len(q)}

\* The candidate rows whose key has no pricing_detail row.
Unmatched == {r \in set_prices : \A d \in db.pricing_detail : KeyOf(d) # KeyOf(r)}

BaselineOf(r) == CHOOSE d \in db.pricing_detail : KeyOf(d) = KeyOf(r)

RECURSIVE TotalOf(_, _)
\* The sum of f[r] over the rows r of S.
TotalOf(S, f) ==
    IF S = {} THEN 0
    ELSE LET r == CHOOSE x \in S : TRUE
         IN  f[r] + TotalOf(S \ {r}, f)

Total(S, F(_)) == TotalOf(S, [r \in S |-> F(r)])

CurDemand(r) == BaselineOf(r).current_price_demand

CurProfit(r) == BaselineOf(r).current_price_profit

NewDemand(r) == udf_demand_price(UdfArgs(r))

RowProfit(r) ==
    NewDemand(r)
        * (r.new_price - BaselineOf(r).item_cost + BaselineOf(r).average_basket_profit)

\* v is n/d rounded to an integer, a half going away from zero.
IsHalfAwayRounding(v, n, d) ==
    LET nn == IF d < 0 THEN 0 - n ELSE n
        dd == Abs(d)
        gap == Abs(v * dd - nn)
    IN  /\ 2 * gap <= dd
        /\ 2 * gap = dd => Abs(v * dd) > Abs(nn)

\* The keys of the rows S are exactly the keys of one (brand, item) scope.
WholeBatch(S) ==
    \E k \in PricingKeys :
        {KeyOf(r) : r \in S} = {x \in PricingKeys : x.brand = k.brand /\ x.item = k.item}

Descending(q) ==
    \A m, n \in 1..Len(q) : m < n => q[m].timestamp >= q[n].timestamp

EvaluationSteps == {"join", "demand_lift", "profit_lift"}

\* The run met a zero baseline sum when it computed a lift.
ZeroBaseline ==
    /\ "join" \in ran
    /\ df_demand # {}
    /\ exc = <<>> \/ exc[2] # "udf_demand_price failed"
    /\ \/ SumCol(df_demand, "current_price_demand") = 0
       \/ /\ "demand_lift" \in ran
          /\ SumCol(df_demand, "current_price_profit") = 0

----------------------------------------------------------------------------
(* The properties.                                                         *)

\* C1: the commit is atomic over the batch.  Whenever no INSERT is running,
\* the rows of pricing_final that carry one commit timestamp, and the rows
\* of one timestamp in the history shown, are the rows of a whole candidate
\* set or none; after a failed INSERT no row of its batch is in the table.
C1_CommitAtomic ==
    pc # "write" =>
        /\ \A ts \in 1..now :
             \/ RowsAt(db.pricing_final, ts) = {}
             \/ WholeBatch(RowsAt(db.pricing_final, ts))
        /\ \A ts \in 1..now :
             \/ RowsAt(Range(history_df), ts) = {}
             \/ WholeBatch(RowsAt(Range(history_df), ts))
        /\ exc = <<"button", "write failed">> => RowsAt(db.pricing_final, now) = {}

\* A run whose INSERT failed after writing 1 of at least 2 rows.
C1_Witness ==
    /\ pc = "footer"
    /\ exc = <<"button", "write failed">>
    /\ rows_written = 1
    /\ Cardinality(set_prices) >= 2
    /\ RowsAt(db.pricing_final, now) = {}

\* C2: a candidate set whose baseline demand (or baseline profit) sums to 0
\* makes the evaluation fail with the condition UndefinedLift, and no lift
\* is shown.
C2_UndefinedLift ==
    (pc = "footer" /\ ZeroBaseline) => (st_error = "UndefinedLift" /\ st_metrics = <<>>)

\* C3: a candidate row without a pricing_detail row aborts the evaluation
\* with JoinMismatch at the join; the row is never dropped from the rows
\* that are scored and aggregated.
C3_JoinMismatchAborts ==
    ("join" \in ran /\ Unmatched # {}) =>
        /\ exc = <<"join", "JoinMismatch">>
        /\ \A r \in Unmatched : \E c \in udf_calls : c.key = KeyOf(r)

\* C4 as stated: every call of udf_demand_price passes 16 positional values,
\* new_price first and base_price second.
C4_SixteenArguments ==
    \A c \in udf_calls :
        /\ Len(c.args) = 16
        /\ \E r \in set_prices :
             KeyOf(r) = c.key /\ c.args[1] = r.new_price /\ c.args[2] = r.base_price

\* C4 amended: every joined row is scored by one call, and every call of
\* udf_demand_price passes exactly 14 positional values: new_price,
\* base_price, then the 12 historical features in the order of the field
\* list, the same on every call.
C4_FourteenArguments ==
    /\ "join" \in ran =>
         \A r \in set_prices \ Unmatched : \E c \in udf_calls : c.key = KeyOf(r)
    /\ \A c \in udf_calls :
         /\ Len(c.args) = 14
         /\ \E r \in set_prices :
              /\ KeyOf(r) = c.key
              /\ c.args = <<r.new_price, r.base_price,
                            r.price_hist_dow, r.price_year_dow, r.price_month_dow,
                            r.price_change_hist_dow, r.price_change_year_dow,
                            r.price_change_month_dow,
                            r.price_hist_roll, r.price_year_roll, r.price_month_roll,
                            r.price_change_hist_roll, r.price_change_year_roll,
                            r.price_change_month_roll>>

\* Two rows scored, one of them with an edited price unlike its base price.
C4_Witness ==
    /\ Cardinality(udf_calls) >= 2
    /\ \E c \in udf_calls : c.args[1] # c.args[2]

\* C5: for a non-empty candidate set whose rows all have a baseline and
\* whose baseline demand sums to more than 0, the demand lift is
\* 100 * (sum of new demand - sum of baseline demand) / (sum of baseline
\* demand) rounded to one decimal, half away from zero, the sums ranging
\* over every row of the candidate set.
C5_DemandLift ==
    ("demand_lift" \in ran /\ set_prices # {} /\ Unmatched = {}
        /\ Total(set_prices, CurDemand) > 0) =>
        /\ demand_lift # <<>>
        /\ IsHalfAwayRounding(demand_lift[1],
               1000 * (Total(set_prices, NewDemand) - Total(set_prices, CurDemand)),
               Total(set_prices, CurDemand))

\* Baseline demands 100 and 50, new demands 120 and 40: the lift is 6.7.
C5_Witness ==
    /\ "demand_lift" \in ran
    /\ Unmatched = {}
    /\ {<<CurDemand(r), NewDemand(r)>> : r \in set_prices} = {<<100, 120>>, <<50, 40>>}
    /\ Cardinality(set_prices) = 2
    /\ demand_lift = <<67>>

\* C6: every scored row's new_price_profit is new_price_demand *
\* (new_price - item_cost + average_basket_profit), and for a non-empty
\* candidate set whose rows all have a baseline and whose baseline profit
\* does not sum to 0, the profit lift is 100 * (sum of new_price_profit -
\* sum of baseline profit) / (sum of baseline profit) rounded to one
\* decimal, over every row of the candidate set.
C6_ProfitLift ==
    /\ \A r \in WithProfit(df_demand) :
         r.new_price_profit =
             r.new_price_demand * (r.new_price - r.item_cost + r.average_basket_profit)
    /\ ("profit_lift" \in ran /\ set_prices # {} /\ Unmatched = {}
          /\ Total(set_prices, CurProfit) # 0) =>
         /\ profit_lift # <<>>
         /\ IsHalfAwayRounding(profit_lift[1],
                1000 * (Total(set_prices, RowProfit) - Total(set_prices, CurProfit)),
                Total(set_prices, CurProfit))

\* item_cost 2, average_basket_profit 1, new_price 5 and demand 30 give a
\* row profit of 120; the lift has been computed.
C6_Witness ==
    /\ "profit_lift" \in ran
    /\ profit_lift # <<>>
    /\ \E r \in WithProfit(df_demand) :
         /\ r.item_cost = 2
         /\ r.average_basket_profit = 1
         /\ r.new_price = 5
         /\ r.new_price_demand = 30
         /\ r.new_price_profit = 120

\* C7: every failure of the taxonomy that arises in a run reaches the
\* caller as an error of its own: a run in which a candidate row has no
\* baseline, a baseline sum is zero, the scoring fails or the write fails
\* ends with an error shown and not with the success message, and a run
\* with a missing or zero baseline shows no lift.
C7_FailuresSurface ==
    /\ ("join" \in ran /\ Unmatched # {}) =>
         (st_metrics = <<>> /\ ~st_success /\ (pc = "footer" => st_error # ""))
    /\ ZeroBaseline =>
         (st_metrics = <<>> /\ ~st_success /\ (pc = "footer" => st_error # ""))
    /\ (pc = "footer" /\ exc # <<>>) => (st_error # "" /\ ~st_success)

\* C8: the transaction log is append-only and a commit is read back.  No
\* step removes or changes a row of pricing_final; every history read shows
\* exactly the rows of pricing_final, newest timestamp first; the rows of a
\* commit that returned are in the history read of the same run.
C8_AppendOnlyHistory ==
    /\ [][db.pricing_final \subseteq db'.pricing_final]_vars
    /\ []("history" \in ran =>
            /\ Range(history_df) = db.pricing_final
            /\ Len(history_df) = Cardinality(db.pricing_final)
            /\ Descending(history_df)
            /\ st_success =>
                 \A r \in set_prices : Stamp(r, now - 1) \in Range(history_df))

\* A history read after a commit: the batch above the older transaction.
C8_Witness ==
    /\ "history" \in ran
    /\ st_success
    /\ Len(history_df) > Cardinality(set_prices)
    /\ Cardinality(set_prices) >= 2
    /\ history_df[1].timestamp > history_df[Len(history_df)].timestamp

\* C9: the only change to persisted state is the append to pricing_final
\* by the commit.  No step changes pricing or pricing_detail, and
\* pricing_final changes only in the step that ends the INSERT of the
\* "Update Prices" block.
C9_OnlyCommitWrites ==
    [][/\ db'.pricing = db.pricing
       /\ db'.pricing_detail = db.pricing_detail
       /\ db'.pricing_final # db.pricing_final =>
            (pc = "write" /\ st_success' /\ db.pricing_final \subseteq db'.pricing_final)
      ]_vars

\* A commit has appended its batch; the catalog tables are as they were.
C9_Witness ==
    /\ st_success
    /\ \A r \in set_prices : Stamp(r, now - 1) \in db.pricing_final
    /\ db.pricing = PricingTable
    /\ set_prices # {}

\* C10: rows are appended only after the evaluation of the same candidate
\* set has completed in the same run, and a run in which the evaluation
\* raised appends nothing.
C10_CommitAfterEvaluation ==
    /\ [][db'.pricing_final # db.pricing_final =>
            /\ EvaluationSteps \subseteq ran
            /\ exc = <<>>
            /\ df_demand = JoinAndScore(set_prices, db.pricing_detail)
            /\ \A r \in db'.pricing_final \ db.pricing_final :
                 \E x \in set_prices : r = Stamp(x, now)
         ]_vars
    /\ []((exc # <<>> /\ exc[1] \in EvaluationSteps \cup {"chart"}) =>
            (~st_success /\ rows_written = 0 /\ pc # "write"))

\* A run that evaluated, showed both lifts and then committed.
C10_Witness ==
    /\ pc = "footer"
    /\ st_success
    /\ EvaluationSteps \subseteq ran
    /\ st_metrics # <<>>
    /\ \A r \in set_prices : Stamp(r, now - 1) \in db.pricing_final

====
